---- MODULE Spec2Model ----
(***************************************************************************)
(* ResumeBuilder (src/src/components/ResumeBuilder.tsx): the in-memory     *)
(* resume record, its mutation handlers, the debounced auto-save effect,   *)
(* the persistence adapter over localStorage and the load at mount.        *)
(*                                                                         *)
(* Text is a sequence of one-character strings, "" is <<>>.  A JavaScript  *)
(* object is a function from its own keys, so an absent optional key is a  *)
(* key outside DOMAIN.  JavaScript list index i is position i + 1.         *)
(* Time advances in steps of the shortest timer delay; a timer fires at    *)
(* its due time, and time does not pass a due timer.                       *)
(***************************************************************************)
EXTENDS Integers, Sequences, FiniteSets, TLC

VARIABLES
    phase,          \* "init" before the component mounts, "mounted", "crashed"
    resumeData,     \* useState<ResumeData>: the rendered record
    isSaving,       \* useState(false)
    lastSaved,      \* useState<Date | null>: <<>> is null, <<t>> a date
    storage,        \* localStorage item under StorageKey
    autosaveTimers, \* pending setTimeout(saveToLocalStorage, 2000): [due, data]
    cleanupTimer,   \* the handle the auto-save effect's cleanup will clear
    savingTimers,   \* pending setTimeout(() => setIsSaving(false), 500): due times
    toasts,         \* notifications raised, oldest first
    consoleErrors,  \* console.error calls, oldest first
    now,            \* current time
    changeLog,      \* history: times at which a setResumeData was committed
    events,         \* history: number of user-interface events handled
    loadedItem,     \* history: what localStorage.getItem returned at mount
    saveLog,        \* history: every saveToLocalStorage call, oldest first
    calls           \* history: the handler calls an observer recorded

vars == <<phase, resumeData, isSaving, lastSaved, storage, autosaveTimers,
          cleanupTimer, savingTimers, toasts, consoleErrors, now, changeLog,
          events, loadedItem, saveLog, calls>>

----------------------------------------------------------------------------
(* Bounds of the model                                                     *)

MaxEvents == 2
MaxTime == 3000

(* Program constants                                                       *)

QuietWindow == 2000
SavingDelay == 500
StorageKey == "resumeData"

----------------------------------------------------------------------------
(* Text                                                                    *)

Space == " "

RECURSIVE TrimStart(_)
TrimStart(s) ==
    IF s # <<>> /\ Head(s) = Space THEN TrimStart(Tail(s)) ELSE s

RECURSIVE TrimEnd(_)
TrimEnd(s) ==
    IF s # <<>> /\ s[Len(s)] = Space THEN TrimEnd(SubSeq(s, 1, Len(s) - 1)) ELSE s

\* String.prototype.trim
Trim(s) == TrimEnd(TrimStart(s))

\* JavaScript truthiness of a string
Truthy(s) == s # <<>>

\* Array.prototype.includes
Includes(list, x) == \E i \in 1..Len(list) : list[i] = x

----------------------------------------------------------------------------
(* The record                                                              *)

PersonalFields ==
    <<"name", "email", "phone", "location", "summary", "linkedin", "github">>
ExperienceFields == <<"title", "company", "duration", "description">>
EducationFields == <<"degree", "institution", "year", "gpa">>
ProjectFields == <<"name", "description", "technologies", "link">>
RecordKeys == <<"personalInfo", "experience", "education", "skills", "projects">>

Range(s) == {s[i] : i \in 1..Len(s)}

\* an object with the given keys, every value the empty string
EmptyObject(keys) == [k \in Range(keys) |-> <<>>]

\* useState<ResumeData> initial value
DefaultResumeData ==
    [personalInfo |-> EmptyObject(PersonalFields),
     experience |-> <<>>,
     education |-> <<>>,
     skills |-> <<>>,
     projects |-> <<>>]

\* { ...obj, [key]: value }
Spread(obj, key, value) ==
    [k \in DOMAIN obj \cup {key} |-> IF k = key THEN value ELSE obj[k]]

\* (r.projects || [])
ProjectsOrEmpty(r) == IF "projects" \in DOMAIN r THEN r.projects ELSE <<>>

\* variant: an index past the end is taken as the last position
MapUpdate_ClampsIndex(list, index, field, value) ==
    [p \in 1..Len(list) |->
        IF p - 1 = index \/ (p = Len(list) /\ index >= Len(list))
        THEN Spread(list[p], field, value) ELSE list[p]]

\* list.map((e, i) => i === index ? { ...e, [field]: value } : e)
MapUpdate(list, index, field, value) ==
    [p \in 1..Len(list) |->
        IF p - 1 = index THEN Spread(list[p], field, value) ELSE list[p]]

\* variant: the entry at index and every entry after it are dropped
FilterOut_FromIndex(list, index) ==
    IF index + 1 \in 1..Len(list) THEN SubSeq(list, 1, index) ELSE list

\* list.filter((_, i) => i !== index)
FilterOut(list, index) ==
    IF index + 1 \in 1..Len(list)
    THEN SubSeq(list, 1, index) \o SubSeq(list, index + 2, Len(list))
    ELSE list

----------------------------------------------------------------------------
(* Completion score                                                        *)

CompletionTotal == 7

\* variant: the quotient is truncated
MathRound_Truncates(num, den) == num \div den

\* Math.round(num / den) for a non-negative quotient: the nearest integer,
\* a half going up
MathRound(num, den) == (2 * num + den) \div (2 * den)

\* getCompletionPercentage for the rendered record
getCompletionPercentage(r) ==
    LET completed ==
            (IF Truthy(r.personalInfo.name) THEN 1 ELSE 0)
          + (IF Truthy(r.personalInfo.email) THEN 1 ELSE 0)
          + (IF Truthy(r.personalInfo.summary) THEN 1 ELSE 0)
          + (IF Len(r.skills) > 0 THEN 1 ELSE 0)
          + (IF Len(r.experience) > 0 THEN 1 ELSE 0)
          + (IF Len(r.education) > 0 THEN 1 ELSE 0)
          + (IF Len(ProjectsOrEmpty(r)) > 0 THEN 1 ELSE 0)
    IN  MathRound(completed * 100, CompletionTotal)

----------------------------------------------------------------------------
(* Serialization: the stored text is the sequence of <<key, value>>        *)
(* members of the object, in key order; a key the object does not own is   *)
(* not written.                                                            *)

\* variant: a member whose value is the empty string is not written
StringifyObject_SkipsEmpty(obj, keys) ==
    LET present == SelectSeq(keys, LAMBDA k : k \in DOMAIN obj /\ obj[k] # <<>>)
    IN  [i \in 1..Len(present) |-> <<present[i], obj[present[i]]>>]

\* the members of one flat object of text fields
StringifyObject(obj, keys) ==
    LET present == SelectSeq(keys, LAMBDA k : k \in DOMAIN obj)
    IN  [i \in 1..Len(present) |-> <<present[i], obj[present[i]]>>]

\* the object a sequence of members denotes
ParseObject(members) ==
    [k \in {members[i][1] : i \in 1..Len(members)} |->
        members[CHOOSE i \in 1..Len(members) : members[i][1] = k][2]]

FieldsOf(key) ==
    CASE key = "personalInfo" -> PersonalFields
      [] key = "experience" -> ExperienceFields
      [] key = "education" -> EducationFields
      [] key = "projects" -> ProjectFields

StringifyValue(key, v) ==
    CASE key = "personalInfo" -> StringifyObject(v, FieldsOf(key))
      [] key = "skills" -> v
      [] OTHER -> [i \in 1..Len(v) |-> StringifyObject(v[i], FieldsOf(key))]

ParseValue(key, t) ==
    CASE key = "personalInfo" -> ParseObject(t)
      [] key = "skills" -> t
      [] OTHER -> [i \in 1..Len(t) |-> ParseObject(t[i])]

\* JSON.stringify(resumeData)
JSONstringify(r) ==
    LET present == SelectSeq(RecordKeys, LAMBDA k : k \in DOMAIN r)
    IN  [i \in 1..Len(present) |->
            <<present[i], StringifyValue(present[i], r[present[i]])>>]

\* JSON.parse(saved), for a text that is the serialization of an object
JSONparse(text) ==
    [k \in {text[i][1] : i \in 1..Len(text)} |->
        ParseValue(k, text[CHOOSE i \in 1..Len(text) : text[i][1] = k][2])]

\* localStorage items: no item, a text JSON.parse rejects, a JSON text
NoItem == [kind |-> "none"]
CorruptItem == [kind |-> "corrupt"]
JsonItem(text) == [kind |-> "json", text |-> text]

----------------------------------------------------------------------------
(* Persistence adapter                                                     *)

\* variant: the success notification sits outside the if (saved) test
loadFromLocalStorage_ToastOutsideIf(item) ==
    CASE item.kind = "json" ->
            [loaded |-> TRUE, data |-> JSONparse(item.text),
             toasts |-> <<"Previous data loaded">>, errors |-> <<>>,
             thrown |-> FALSE]
      [] item.kind = "corrupt" ->
            [loaded |-> FALSE, toasts |-> <<>>,
             errors |-> <<"Failed to load saved data:">>, thrown |-> FALSE]
      [] OTHER ->
            [loaded |-> FALSE, toasts |-> <<"Previous data loaded">>,
             errors |-> <<>>, thrown |-> FALSE]

\* variant: JSON.parse is called outside the try block
loadFromLocalStorage_NoCatch(item) ==
    CASE item.kind = "json" ->
            [loaded |-> TRUE, data |-> JSONparse(item.text),
             toasts |-> <<"Previous data loaded">>, errors |-> <<>>,
             thrown |-> FALSE]
      [] item.kind = "corrupt" ->
            [loaded |-> FALSE, toasts |-> <<>>, errors |-> <<>>,
             thrown |-> TRUE]
      [] OTHER ->
            [loaded |-> FALSE, toasts |-> <<>>, errors |-> <<>>,
             thrown |-> FALSE]

\* loadFromLocalStorage: the state update it queues, what it notifies and
\* logs, and whether an exception leaves it
loadFromLocalStorage(item) ==
    CASE item.kind = "json" ->
            [loaded |-> TRUE, data |-> JSONparse(item.text),
             toasts |-> <<"Previous data loaded">>, errors |-> <<>>,
             thrown |-> FALSE]
      [] item.kind = "corrupt" ->
            [loaded |-> FALSE, toasts |-> <<>>,
             errors |-> <<"Failed to load saved data:">>, thrown |-> FALSE]
      [] OTHER ->
            [loaded |-> FALSE, toasts |-> <<>>, errors |-> <<>>,
             thrown |-> FALSE]

\* variant: the timer's callback closes over the record of the render before
ArmTimer_StaleRecord(data) == [due |-> now + QuietWindow, data |-> resumeData]

\* the timer the auto-save effect arms for the record it rendered
ArmTimer(data) == [due |-> now + QuietWindow, data |-> data]

\* variant: the effect returns no cleanup
AutosaveEffect_NoCleanup(timers, handle, data) == timers \cup {ArmTimer(data)}

\* the auto-save effect after a render with a new resumeData: the previous
\* run's cleanup clears its timer, then a new timer is armed
AutosaveEffect(timers, handle, data) == (timers \ handle) \cup {ArmTimer(data)}

\* variant: the auto-save effect has no dependency on resumeData
SetResumeData_EffectRunsOnce(next) ==
    /\ resumeData' = next
    /\ UNCHANGED <<autosaveTimers, cleanupTimer>>
    /\ changeLog' = Append(changeLog, now)

\* setResumeData(next), the re-render and the effects it triggers
SetResumeData(next) ==
    /\ resumeData' = next
    /\ autosaveTimers' = AutosaveEffect(autosaveTimers, cleanupTimer, next)
    /\ cleanupTimer' = {ArmTimer(next)}
    /\ changeLog' = Append(changeLog, now)

\* the stored item after localStorage.setItem(StorageKey, JSON.stringify(data))
SetItem(data) == JsonItem(JSONstringify(data))

\* variant: the catch block does not reset isSaving
saveToLocalStorage_StuckSaving(data, by, ok) ==
    /\ isSaving' = TRUE
    /\ storage' = IF ok THEN SetItem(data) ELSE storage
    /\ lastSaved' = IF ok THEN <<now>> ELSE lastSaved
    /\ savingTimers' = IF ok THEN savingTimers \cup {now + SavingDelay}
                             ELSE savingTimers
    /\ toasts' = IF ok THEN toasts ELSE Append(toasts, "Failed to save data")
    /\ saveLog' = Append(saveLog,
                    [by |-> by, at |-> now, ok |-> ok, data |-> data])

\* variant: a successful save schedules no reset of isSaving
saveToLocalStorage_NoReset(data, by, ok) ==
    /\ isSaving' = ok
    /\ storage' = IF ok THEN SetItem(data) ELSE storage
    /\ lastSaved' = IF ok THEN <<now>> ELSE lastSaved
    /\ savingTimers' = savingTimers
    /\ toasts' = IF ok THEN toasts ELSE Append(toasts, "Failed to save data")
    /\ saveLog' = Append(saveLog,
                    [by |-> by, at |-> now, ok |-> ok, data |-> data])

\* variant: only the personalInfo part of the record is written
saveToLocalStorage_WritesPersonalInfo(data, by, ok) ==
    /\ isSaving' = ok
    /\ storage' = IF ok
                  THEN JsonItem(JSONstringify([personalInfo |-> data.personalInfo]))
                  ELSE storage
    /\ lastSaved' = IF ok THEN <<now>> ELSE lastSaved
    /\ savingTimers' = IF ok THEN savingTimers \cup {now + SavingDelay}
                             ELSE savingTimers
    /\ toasts' = IF ok THEN toasts ELSE Append(toasts, "Failed to save data")
    /\ saveLog' = Append(saveLog,
                    [by |-> by, at |-> now, ok |-> ok, data |-> data])

\* saveToLocalStorage with the record its closure captured; ok is whether
\* localStorage.setItem returns (TRUE) or throws (FALSE)
saveToLocalStorage(data, by, ok) ==
    /\ isSaving' = ok
    /\ storage' = IF ok THEN SetItem(data) ELSE storage
    /\ lastSaved' = IF ok THEN <<now>> ELSE lastSaved
    /\ savingTimers' = IF ok THEN savingTimers \cup {now + SavingDelay}
                             ELSE savingTimers
    /\ toasts' = IF ok THEN toasts ELSE Append(toasts, "Failed to save data")
    /\ saveLog' = Append(saveLog,
                    [by |-> by, at |-> now, ok |-> ok, data |-> data])

----------------------------------------------------------------------------
(* Inputs                                                                  *)

TextA == <<"A">>
SkillTexts == {<<>>, <<Space>>, <<"a">>, <<Space, "a">>, <<"b">>}
Indexes == 0..2
EditedPersonalFields == {"name"}
EditedExperienceFields == {"title"}
EditedEducationFields == {"degree"}
EditedProjectFields == {"name"}

\* a record in the shape of a version without projects
LegacyRecord ==
    [personalInfo |-> Spread(EmptyObject(PersonalFields), "name", TextA),
     experience |-> <<>>,
     education |-> <<>>,
     skills |-> <<<<"a">>>>]

\* a complete record whose skills repeat an entry
RepeatingRecord ==
    [personalInfo |-> Spread(EmptyObject(PersonalFields), "email", TextA),
     experience |-> <<EmptyObject(ExperienceFields)>>,
     education |-> <<>>,
     skills |-> <<<<"a">>, <<"a">>>>,
     projects |-> <<>>]

\* a complete record
SavedRecord ==
    [personalInfo |-> Spread(EmptyObject(PersonalFields), "summary", TextA),
     experience |-> <<>>,
     education |-> <<EmptyObject(EducationFields)>>,
     skills |-> <<<<"b">>>>,
     projects |-> <<EmptyObject(ProjectFields)>>]

\* what the importer hands to onDataImported
ImportedRecords == {LegacyRecord, RepeatingRecord}

\* what an earlier session, or something else, left under StorageKey
InitialItems ==
    {NoItem, CorruptItem, SetItem(LegacyRecord), SetItem(SavedRecord)}

----------------------------------------------------------------------------
(* Initial state: the component is constructed with its useState defaults  *)

\* the component as constructed, over one of the given stored items
Constructed(items) ==
    /\ phase = "init"
    /\ resumeData = DefaultResumeData
    /\ isSaving = FALSE
    /\ lastSaved = <<>>
    /\ storage \in items
    /\ autosaveTimers = {}
    /\ cleanupTimer = {}
    /\ savingTimers = {}
    /\ toasts = <<>>
    /\ consoleErrors = <<>>
    /\ now = 0
    /\ changeLog = <<>>
    /\ events = 0
    /\ loadedItem = NoItem
    /\ saveLog = <<>>
    /\ calls = <<>>

Init == Constructed(InitialItems)

Mounted == phase = "mounted"

\* a user-interface event is handled by the mounted component; the events
\* followed without recording the call are at most MaxEvents
UserEvent ==
    /\ Mounted
    /\ events - Len(calls) < MaxEvents
    /\ events' = events + 1

\* variant: the re-render after the load does not clear the first timer
Mount_FirstTimerKept ==
    /\ phase = "init"
    /\ loadedItem' = storage
    /\ LET first == {ArmTimer(resumeData)}
           load == loadFromLocalStorage(storage)
       IN  /\ phase' = IF load.thrown THEN "crashed" ELSE "mounted"
           /\ toasts' = toasts \o load.toasts
           /\ consoleErrors' = consoleErrors \o load.errors
           /\ IF load.loaded
              THEN /\ resumeData' = load.data
                   /\ autosaveTimers' = first \cup {ArmTimer(load.data)}
                   /\ cleanupTimer' = {ArmTimer(load.data)}
                   /\ changeLog' = Append(changeLog, now)
              ELSE /\ autosaveTimers' = first
                   /\ cleanupTimer' = first
                   /\ UNCHANGED <<resumeData, changeLog>>
    /\ UNCHANGED <<isSaving, lastSaved, storage, savingTimers, now,
                   events, saveLog>>

\* first render: the auto-save effect arms its timer with the default
\* record, then the load effect runs; a loaded record is a state change
Mount ==
    /\ phase = "init"
    /\ loadedItem' = storage
    /\ LET first == {ArmTimer(resumeData)}
           load == loadFromLocalStorage(storage)
       IN  /\ phase' = IF load.thrown THEN "crashed" ELSE "mounted"
           /\ toasts' = toasts \o load.toasts
           /\ consoleErrors' = consoleErrors \o load.errors
           /\ IF load.loaded
              THEN /\ resumeData' = load.data
                   /\ autosaveTimers' = AutosaveEffect(first, first, load.data)
                   /\ cleanupTimer' = {ArmTimer(load.data)}
                   /\ changeLog' = Append(changeLog, now)
              ELSE /\ autosaveTimers' = first
                   /\ cleanupTimer' = first
                   /\ UNCHANGED <<resumeData, changeLog>>
    /\ UNCHANGED <<isSaving, lastSaved, storage, savingTimers, now,
                   events, saveLog>>

----------------------------------------------------------------------------
(* Time and timers                                                         *)

Tick ==
    /\ Mounted
    /\ \A t \in autosaveTimers : t.due > now
    /\ \A d \in savingTimers : d > now
    /\ now + SavingDelay <= MaxTime
    /\ now' = now + SavingDelay
    /\ UNCHANGED <<phase, resumeData, isSaving, lastSaved, storage,
                   autosaveTimers, cleanupTimer, savingTimers, toasts,
                   consoleErrors, changeLog, events, loadedItem, saveLog>>

\* the debounce timer fires: saveToLocalStorage of the render that armed it
AutosaveTimerFires ==
    /\ Mounted
    /\ \E t \in autosaveTimers :
        /\ t.due <= now
        /\ autosaveTimers' = autosaveTimers \ {t}
        /\ \E ok \in BOOLEAN : saveToLocalStorage(t.data, "timer", ok)
    /\ UNCHANGED <<phase, resumeData, cleanupTimer, consoleErrors, now,
                   changeLog, events, loadedItem>>

\* setTimeout(() => setIsSaving(false), 500) fires
SavingTimerFires ==
    /\ Mounted
    /\ \E d \in savingTimers :
        /\ d <= now
        /\ savingTimers' = savingTimers \ {d}
    /\ isSaving' = FALSE
    /\ UNCHANGED <<phase, resumeData, lastSaved, storage, autosaveTimers,
                   cleanupTimer, toasts, consoleErrors, now, changeLog,
                   events, loadedItem, saveLog>>

\* variant: the button keeps the saveToLocalStorage of the first render
ClickSaveProgress_StaleClosure ==
    /\ UserEvent
    /\ \E ok \in BOOLEAN : saveToLocalStorage(DefaultResumeData, "manual", ok)
    /\ UNCHANGED <<phase, resumeData, autosaveTimers, cleanupTimer,
                   consoleErrors, now, changeLog, loadedItem>>

\* variant: the button's save clears the pending debounce timer
ClickSaveProgress_CancelsPending ==
    /\ UserEvent
    /\ \E ok \in BOOLEAN : saveToLocalStorage(resumeData, "manual", ok)
    /\ autosaveTimers' = {}
    /\ cleanupTimer' = {}
    /\ UNCHANGED <<phase, resumeData, consoleErrors, now, changeLog,
                   loadedItem>>

\* the Save Progress button: onClick={saveToLocalStorage} of the current render
ClickSaveProgress ==
    /\ UserEvent
    /\ \E ok \in BOOLEAN : saveToLocalStorage(resumeData, "manual", ok)
    /\ UNCHANGED <<phase, resumeData, autosaveTimers, cleanupTimer,
                   consoleErrors, now, changeLog, loadedItem>>

----------------------------------------------------------------------------
(* Form state store: each handler is setResumeData(prev => ...), committed *)
(* with its re-render before the next event                                *)

Frame == UNCHANGED <<phase, isSaving, lastSaved, storage, savingTimers,
                     toasts, consoleErrors, now, loadedItem, saveLog>>

\* variant: the updater does not spread prev
handlePersonalInfoChange_NoSpread(field, value) ==
    /\ UserEvent
    /\ SetResumeData([personalInfo |->
                         Spread(resumeData.personalInfo, field, value)])
    /\ Frame

handlePersonalInfoChange(field, value) ==
    /\ UserEvent
    /\ SetResumeData(Spread(resumeData, "personalInfo",
                            Spread(resumeData.personalInfo, field, value)))
    /\ Frame

addExperience ==
    /\ UserEvent
    /\ SetResumeData(Spread(resumeData, "experience",
            Append(resumeData.experience, EmptyObject(ExperienceFields))))
    /\ Frame

updateExperience(index, field, value) ==
    /\ UserEvent
    /\ SetResumeData(Spread(resumeData, "experience",
            MapUpdate(resumeData.experience, index, field, value)))
    /\ Frame

\* variant: the last entry is removed, whatever the index
removeExperience_RemovesLast(index) ==
    /\ UserEvent
    /\ SetResumeData([resumeData EXCEPT !.experience =
            SubSeq(@, 1, IF @ = <<>> THEN 0 ELSE Len(@) - 1)])
    /\ Frame

removeExperience(index) ==
    /\ UserEvent
    /\ SetResumeData(Spread(resumeData, "experience",
            FilterOut(resumeData.experience, index)))
    /\ Frame

addEducation ==
    /\ UserEvent
    /\ SetResumeData(Spread(resumeData, "education",
            Append(resumeData.education, EmptyObject(EducationFields))))
    /\ Frame

\* variant: the entry at index is replaced by one holding only the new value
updateEducation_ReplacesEntry(index, field, value) ==
    /\ UserEvent
    /\ SetResumeData(Spread(resumeData, "education",
            [p \in 1..Len(resumeData.education) |->
                IF p - 1 = index
                THEN Spread(EmptyObject(EducationFields), field, value)
                ELSE resumeData.education[p]]))
    /\ Frame

updateEducation(index, field, value) ==
    /\ UserEvent
    /\ SetResumeData(Spread(resumeData, "education",
            MapUpdate(resumeData.education, index, field, value)))
    /\ Frame

removeEducation(index) ==
    /\ UserEvent
    /\ SetResumeData(Spread(resumeData, "education",
            FilterOut(resumeData.education, index)))
    /\ Frame

\* variant: the membership test is made on the text as typed
addSkill_TestsUntrimmed(skill) ==
    /\ UserEvent
    /\ IF Truthy(Trim(skill)) /\ ~Includes(resumeData.skills, skill)
       THEN SetResumeData(Spread(resumeData, "skills",
                Append(resumeData.skills, Trim(skill))))
       ELSE UNCHANGED <<resumeData, autosaveTimers, cleanupTimer, changeLog>>
    /\ Frame

\* variant: the state update is issued whatever the text
addSkill_AlwaysUpdates(skill) ==
    /\ UserEvent
    /\ SetResumeData(Spread(resumeData, "skills",
            IF Truthy(Trim(skill)) /\ ~Includes(resumeData.skills, Trim(skill))
            THEN Append(resumeData.skills, Trim(skill))
            ELSE resumeData.skills))
    /\ Frame

\* the duplicate check reads the rendered resumeData
addSkill(skill) ==
    /\ UserEvent
    /\ IF Truthy(Trim(skill)) /\ ~Includes(resumeData.skills, Trim(skill))
       THEN SetResumeData(Spread(resumeData, "skills",
                Append(resumeData.skills, Trim(skill))))
       ELSE UNCHANGED <<resumeData, autosaveTimers, cleanupTimer, changeLog>>
    /\ Frame

removeSkill(index) ==
    /\ UserEvent
    /\ SetResumeData(Spread(resumeData, "skills",
            FilterOut(resumeData.skills, index)))
    /\ Frame

addProject ==
    /\ UserEvent
    /\ SetResumeData(Spread(resumeData, "projects",
            Append(ProjectsOrEmpty(resumeData), EmptyObject(ProjectFields))))
    /\ Frame

updateProject(index, field, value) ==
    /\ UserEvent
    /\ SetResumeData(Spread(resumeData, "projects",
            MapUpdate(ProjectsOrEmpty(resumeData), index, field, value)))
    /\ Frame

removeProject(index) ==
    /\ UserEvent
    /\ SetResumeData(Spread(resumeData, "projects",
            FilterOut(ProjectsOrEmpty(resumeData), index)))
    /\ Frame

\* variant: the imported value is merged over the previous record
onDataImported_Merge(data) ==
    /\ UserEvent
    /\ SetResumeData([k \in DOMAIN resumeData \cup DOMAIN data |->
                         IF k \in DOMAIN data THEN data[k] ELSE resumeData[k]])
    /\ toasts' = Append(toasts, "Resume data imported successfully!")
    /\ UNCHANGED <<phase, isSaving, lastSaved, storage, savingTimers,
                   consoleErrors, now, loadedItem, saveLog>>

\* ResumeImporter onDataImported
onDataImported(data) ==
    /\ UserEvent
    /\ SetResumeData(data)
    /\ toasts' = Append(toasts, "Resume data imported successfully!")
    /\ UNCHANGED <<phase, isSaving, lastSaved, storage, savingTimers,
                   consoleErrors, now, loadedItem, saveLog>>

----------------------------------------------------------------------------

\* the step is not recorded by an observer
Unrecorded == UNCHANGED calls

Next ==
    \/ Mount /\ Unrecorded
    \/ Tick /\ Unrecorded
    \/ AutosaveTimerFires /\ Unrecorded
    \/ SavingTimerFires /\ Unrecorded
    \/ ClickSaveProgress /\ Unrecorded
    \/ \E f \in EditedPersonalFields : handlePersonalInfoChange(f, TextA) /\ Unrecorded
    \/ addExperience /\ Unrecorded
    \/ \E i \in Indexes, f \in EditedExperienceFields : updateExperience(i, f, TextA) /\ Unrecorded
    \/ \E i \in Indexes : removeExperience(i) /\ Unrecorded
    \/ addEducation /\ Unrecorded
    \/ \E i \in Indexes, f \in EditedEducationFields : updateEducation(i, f, TextA) /\ Unrecorded
    \/ \E i \in Indexes : removeEducation(i) /\ Unrecorded
    \/ \E s \in SkillTexts : addSkill(s) /\ Unrecorded
    \/ \E i \in Indexes : removeSkill(i) /\ Unrecorded
    \/ addProject /\ Unrecorded
    \/ \E i \in Indexes, f \in EditedProjectFields : updateProject(i, f, TextA) /\ Unrecorded
    \/ \E i \in Indexes : removeProject(i) /\ Unrecorded
    \/ \E d \in ImportedRecords : onDataImported(d) /\ Unrecorded

Spec == Init /\ [][Next]_vars

----------------------------------------------------------------------------
(* Recorded sessions: an observer writes down every handler call           *)

\* the observer records the call and the record it is applied to; it
\* follows at most max calls
Recorded(call, max) ==
    /\ Len(calls) < max
    /\ calls' = Append(calls, call @@ [before |-> resumeData])

(* Sessions on the experience list of a component mounted over no stored   *)
(* item                                                                    *)

MaxCalls == 4

TextB == <<"B">>
ExperienceIndexes == -1..1
ExperienceValues == {TextA, TextB}

InitExperience == Constructed({NoItem})

NextExperience ==
    \/ Mount /\ Unrecorded
    \/ Recorded([op |-> "addExperience"], MaxCalls) /\ addExperience
    \/ \E i \in ExperienceIndexes, f \in EditedExperienceFields, v \in ExperienceValues :
          /\ Recorded([op |-> "updateExperience", index |-> i, field |-> f,
                       value |-> v], MaxCalls)
          /\ updateExperience(i, f, v)
    \/ \E i \in ExperienceIndexes :
          /\ Recorded([op |-> "removeExperience", index |-> i], MaxCalls)
          /\ removeExperience(i)

SpecExperience == InitExperience /\ [][NextExperience]_vars

(* Editing sessions: every handler, over what an earlier session may have  *)
(* stored                                                                  *)

MaxEdits == 2

TextC == <<"C">>
EditIndexes == {-1, 0, 1, 3}
EditSkillTexts == SkillTexts \cup {<<"P">>, <<"p">>}
PersonalValues == {<<>>, TextB}
ExperienceEdits == {"title", "company"}
EducationEdits == {"degree", "institution"}
ProjectEdits == {"name", "link"}

\* a record with every part filled in and three entries in every list
FullRecord ==
    [personalInfo |->
        [k \in Range(PersonalFields) |->
            IF k \in {"name", "email", "summary"} THEN TextA ELSE <<>>],
     experience |-> [p \in 1..3 |-> Spread(EmptyObject(ExperienceFields),
                                           "title", <<TextA, TextB, TextC>>[p])],
     education |-> [p \in 1..3 |-> Spread(EmptyObject(EducationFields),
                                          "degree", <<TextA, TextB, TextC>>[p])],
     skills |-> <<<<"a">>, <<"b">>, <<"P">>>>,
     projects |-> [p \in 1..3 |-> Spread(EmptyObject(ProjectFields),
                                         "name", <<TextA, TextB, TextC>>[p])]]

InitEdit ==
    Constructed({NoItem, SetItem(LegacyRecord), SetItem(FullRecord)})

NextEdit ==
    \/ Mount /\ Unrecorded
    \/ \E f \in Range(PersonalFields), v \in PersonalValues :
          /\ Recorded([op |-> "handlePersonalInfoChange", field |-> f,
                       value |-> v], MaxEdits)
          /\ handlePersonalInfoChange(f, v)
    \/ Recorded([op |-> "addExperience"], MaxEdits) /\ addExperience
    \/ \E i \in EditIndexes, f \in ExperienceEdits :
          /\ Recorded([op |-> "updateExperience", index |-> i, field |-> f,
                       value |-> TextB], MaxEdits)
          /\ updateExperience(i, f, TextB)
    \/ \E i \in EditIndexes :
          /\ Recorded([op |-> "removeExperience", index |-> i], MaxEdits)
          /\ removeExperience(i)
    \/ Recorded([op |-> "addEducation"], MaxEdits) /\ addEducation
    \/ \E i \in EditIndexes, f \in EducationEdits :
          /\ Recorded([op |-> "updateEducation", index |-> i, field |-> f,
                       value |-> TextB], MaxEdits)
          /\ updateEducation(i, f, TextB)
    \/ \E i \in EditIndexes :
          /\ Recorded([op |-> "removeEducation", index |-> i], MaxEdits)
          /\ removeEducation(i)
    \/ \E s \in EditSkillTexts :
          /\ Recorded([op |-> "addSkill", skill |-> s], MaxEdits)
          /\ addSkill(s)
    \/ \E i \in EditIndexes :
          /\ Recorded([op |-> "removeSkill", index |-> i], MaxEdits)
          /\ removeSkill(i)
    \/ Recorded([op |-> "addProject"], MaxEdits) /\ addProject
    \/ \E i \in EditIndexes, f \in ProjectEdits :
          /\ Recorded([op |-> "updateProject", index |-> i, field |-> f,
                       value |-> TextB], MaxEdits)
          /\ updateProject(i, f, TextB)
    \/ \E i \in EditIndexes :
          /\ Recorded([op |-> "removeProject", index |-> i], MaxEdits)
          /\ removeProject(i)
    \/ \E d \in ImportedRecords :
          /\ Recorded([op |-> "onDataImported", data |-> d], MaxEdits)
          /\ onDataImported(d)

SpecEdit == InitEdit /\ [][NextEdit]_vars

----------------------------------------------------------------------------
(* Reading the history                                                     *)

Last(seq) == seq[Len(seq)]

\* the saveToLocalStorage calls made by the debounce timer
TimerSaves == SelectSeq(saveLog, LAMBDA w : w.by = "timer")

\* this step is a saveToLocalStorage call from the given caller
SaveStep(by) ==
    /\ Len(saveLog') = Len(saveLog) + 1
    /\ Last(saveLog').by = by

\* this step commits a setResumeData
ChangeStep == Len(changeLog') = Len(changeLog) + 1

\* when the record last changed; the mount, at time 0, if it never did
LastChangeAt == IF changeLog = <<>> THEN 0 ELSE Last(changeLog)

----------------------------------------------------------------------------
(* C1: debounced autosave.  With changes at 0, 500 and 1000 and none       *)
(* after, the debounce timer saves exactly once, at 3000, the record as of *)
(* 1000.  In general a debounce save happens one quiet window after the    *)
(* last change, writes the record of that change and leaves no debounce    *)
(* timer pending, so no intermediate record is written by the debounce.    *)

C1_Scenario == changeLog = <<0, 500, 1000>>

C1_DebounceWritesLastChange ==
    /\ [](C1_Scenario =>
            /\ (now < 3000 => TimerSaves = <<>>)
            /\ Len(TimerSaves) <= 1
            /\ \A i \in 1..Len(TimerSaves) :
                   /\ TimerSaves[i].at = 3000
                   /\ TimerSaves[i].data = resumeData
            /\ (now >= 3000 /\ autosaveTimers = {} => Len(TimerSaves) = 1))
    /\ [][SaveStep("timer") =>
            /\ Last(saveLog').at = LastChangeAt + QuietWindow
            /\ Last(saveLog').data = resumeData
            /\ autosaveTimers' = {}]_vars

C1_Witness ==
    /\ C1_Scenario
    /\ now = 3000
    /\ TimerSaves = <<[by |-> "timer", at |-> 3000, ok |-> TRUE,
                       data |-> resumeData]>>
    /\ storage = SetItem(resumeData)
    /\ storage # loadedItem

----------------------------------------------------------------------------
(* C2: at most one debounce timer is pending in every reachable state, and *)
(* it is the one armed by the last change: every change clears the timer   *)
(* scheduled before it.                                                    *)

C2_AtMostOnePendingTimer ==
    /\ Cardinality(autosaveTimers) <= 1
    /\ autosaveTimers \subseteq cleanupTimer
    /\ \A t \in autosaveTimers :
           /\ t.due = LastChangeAt + QuietWindow
           /\ t.data = resumeData

C2_Witness ==
    /\ Len(changeLog) >= 2
    /\ changeLog[1] < Last(changeLog)
    /\ Cardinality(autosaveTimers) = 1
    /\ \A t \in autosaveTimers : t.due = Last(changeLog) + QuietWindow

----------------------------------------------------------------------------
(* C3: eventual persistence.  After a change, once the quiet window has    *)
(* passed and the debounce timer has fired without the store throwing,     *)
(* storage holds the serialization of the current in-memory record.        *)

C3_QuietWindowOver ==
    /\ Mounted
    /\ changeLog # <<>>
    /\ \/ now > LastChangeAt + QuietWindow
       \/ now = LastChangeAt + QuietWindow /\ autosaveTimers = {}

C3_WriteFailed ==
    \E i \in 1..Len(TimerSaves) :
        /\ TimerSaves[i].at = LastChangeAt + QuietWindow
        /\ ~TimerSaves[i].ok

C3_EventualPersistence ==
    C3_QuietWindowOver /\ ~C3_WriteFailed => storage = SetItem(resumeData)

C3_Witness ==
    /\ C3_QuietWindowOver
    /\ ~C3_WriteFailed
    /\ Len(changeLog) >= 2
    /\ storage = SetItem(resumeData)
    /\ storage # loadedItem

----------------------------------------------------------------------------
(* C4: a persistence write that throws does not propagate: the component   *)
(* stays mounted, the error notification is raised, isSaving is false      *)
(* right after, lastSaved and the stored item are as before, and no timer  *)
(* is scheduled: no retry and no delayed reset of isSaving.                *)

C4_FailedSaveStep ==
    /\ Len(saveLog') = Len(saveLog) + 1
    /\ ~Last(saveLog').ok

C4_FailureHandled ==
    [][C4_FailedSaveStep =>
        /\ phase' = "mounted"
        /\ toasts' = Append(toasts, "Failed to save data")
        /\ isSaving' = FALSE
        /\ lastSaved' = lastSaved
        /\ storage' = storage
        /\ autosaveTimers' \subseteq autosaveTimers
        /\ savingTimers' = savingTimers]_vars

C4_Witness ==
    /\ saveLog # <<>>
    /\ ~Last(saveLog).ok
    /\ Last(saveLog).at = now
    /\ Last(saveLog).data # DefaultResumeData
    /\ storage # SetItem(Last(saveLog).data)
    /\ toasts # <<>>
    /\ Last(toasts) = "Failed to save data"
    /\ ~isSaving
    /\ autosaveTimers = {}

----------------------------------------------------------------------------
(* C5: a persistence write that succeeds sets lastSaved to the time of the *)
(* write and isSaving to true, and schedules the reset of isSaving 500     *)
(* time units later; while isSaving is true a reset is pending and due     *)
(* within 500 units, a reset that fires makes it false, and it becomes     *)
(* true again only by a save.                                              *)

C5_SuccessfulSaveStep ==
    /\ Len(saveLog') = Len(saveLog) + 1
    /\ Last(saveLog').ok

C5_ResetFires == savingTimers' # savingTimers /\ savingTimers' \subseteq savingTimers

C5_SavingFlag ==
    /\ [](/\ isSaving => savingTimers # {}
          /\ \A d \in savingTimers : now <= d /\ d <= now + SavingDelay
          /\ \A i \in 1..Len(saveLog) :
                 saveLog[i].ok /\ now >= saveLog[i].at + SavingDelay
                 /\ saveLog[i].at + SavingDelay \notin savingTimers
                 /\ (\A j \in 1..Len(saveLog) :
                        saveLog[j].ok => saveLog[j].at <= saveLog[i].at)
                 => ~isSaving)
    /\ [][C5_SuccessfulSaveStep =>
            /\ lastSaved' = <<now>>
            /\ isSaving' = TRUE
            /\ now + SavingDelay \in savingTimers']_vars
    /\ [][C5_ResetFires => isSaving' = FALSE]_vars
    /\ [][~isSaving /\ isSaving' => C5_SuccessfulSaveStep]_vars

C5_Witness ==
    /\ saveLog # <<>>
    /\ Last(saveLog).ok
    /\ now = Last(saveLog).at + SavingDelay
    /\ lastSaved = <<Last(saveLog).at>>
    /\ savingTimers = {}
    /\ ~isSaving

----------------------------------------------------------------------------
(* C6: a manual save writes the current record at once, whether or not a   *)
(* debounce timer is pending, leaves that timer alone, and handles success *)
(* and failure as a debounced write does.                                  *)

C6_ManualSaveImmediate ==
    [][SaveStep("manual") =>
        /\ Last(saveLog').at = now
        /\ Last(saveLog').data = resumeData
        /\ autosaveTimers' = autosaveTimers
        /\ IF Last(saveLog').ok
           THEN /\ storage' = SetItem(resumeData)
                /\ lastSaved' = <<now>>
                /\ isSaving' = TRUE
                /\ savingTimers' = savingTimers \cup {now + SavingDelay}
                /\ toasts' = toasts
           ELSE /\ storage' = storage
                /\ lastSaved' = lastSaved
                /\ isSaving' = FALSE
                /\ savingTimers' = savingTimers
                /\ toasts' = Append(toasts, "Failed to save data")]_vars

\* a manual save succeeded while the debounce timer was pending and not due
C6_Witness ==
    /\ saveLog # <<>>
    /\ Last(saveLog) = [by |-> "manual", at |-> now, ok |-> TRUE,
                        data |-> resumeData]
    /\ changeLog # <<>>
    /\ now > Last(changeLog)
    /\ \E t \in autosaveTimers : t.due > now
    /\ storage = SetItem(resumeData)
    /\ storage # loadedItem
    /\ lastSaved = <<now>>
    /\ isSaving

----------------------------------------------------------------------------
(* C7, as stated: every top-level field of the record, projects included,  *)
(* is defined in every reachable state.                                    *)

C7_RecordFullyPresent == DOMAIN resumeData = Range(RecordKeys)

(* C7, amended: personalInfo, experience, education and skills are defined *)
(* in every reachable state.  projects is defined at session start, but a  *)
(* load or an import of a value without projects leaves it absent in       *)
(* memory: nothing normalizes it on read, it is absent only through such a *)
(* read, and it is defined again once a handler changes the projects list. *)

RequiredKeys == {"personalInfo", "experience", "education", "skills"}

HasProjects(r) == "projects" \in DOMAIN r

\* the stored text has a projects member
TextHasProjects(text) == \E i \in 1..Len(text) : text[i][1] = "projects"

C7_ReadStep ==
    \/ /\ phase = "init"
       /\ storage.kind = "json"
       /\ resumeData' = JSONparse(storage.text)
    \/ /\ ChangeStep
       /\ resumeData' \in ImportedRecords

C7_RequiredFieldsPresent ==
    /\ [](/\ RequiredKeys \subseteq DOMAIN resumeData
          /\ DOMAIN resumeData \subseteq Range(RecordKeys)
          /\ DOMAIN resumeData.personalInfo = Range(PersonalFields)
          /\ (phase = "init" => HasProjects(resumeData))
          /\ (Mounted /\ changeLog = <<>> => HasProjects(resumeData))
          /\ (Len(changeLog) = 1 /\ events = 0 /\ loadedItem.kind = "json" =>
                (HasProjects(resumeData) <=> TextHasProjects(loadedItem.text))))
    /\ [][HasProjects(resumeData) /\ ~HasProjects(resumeData') =>
            C7_ReadStep]_vars
    /\ [][/\ ChangeStep
          /\ ~C7_ReadStep
          /\ ProjectsOrEmpty(resumeData') # ProjectsOrEmpty(resumeData)
          => HasProjects(resumeData')]_vars

\* a record loaded without projects is still without it after an edit
C7_Witness ==
    /\ Mounted
    /\ loadedItem.kind = "json"
    /\ ~TextHasProjects(loadedItem.text)
    /\ events >= 1
    /\ Len(changeLog) >= 2
    /\ ~HasProjects(resumeData)
    /\ resumeData # JSONparse(loadedItem.text)

----------------------------------------------------------------------------
(* C8: in every reachable state no two entries of skills are equal after   *)
(* trimming whitespace.                                                    *)

C8_NoDuplicateSkills ==
    \A i, j \in 1..Len(resumeData.skills) :
        i < j => Trim(resumeData.skills[i]) # Trim(resumeData.skills[j])

----------------------------------------------------------------------------
(* C9: mounting when storage holds no item is not an error: nothing is     *)
(* thrown, nothing is notified or logged, and the record stays the empty   *)
(* default record until the user changes it.                               *)

C9_LoadedNothing == phase # "init" /\ loadedItem = NoItem

C9_NoDataIsNotAnError ==
    C9_LoadedNothing =>
        /\ phase = "mounted"
        /\ consoleErrors = <<>>
        /\ \A i \in 1..Len(toasts) : toasts[i] # "Previous data loaded"
        /\ (saveLog = <<>> /\ events = 0 => toasts = <<>>)
        /\ (events = 0 => resumeData = DefaultResumeData /\ changeLog = <<>>)
        /\ \A k \in DOMAIN DefaultResumeData.personalInfo :
               DefaultResumeData.personalInfo[k] = <<>>
        /\ \A k \in DOMAIN DefaultResumeData \ {"personalInfo"} :
               DefaultResumeData[k] = <<>>

C9_Witness ==
    /\ C9_LoadedNothing
    /\ phase = "mounted"
    /\ events = 0
    /\ now > 0
    /\ resumeData = DefaultResumeData
    /\ toasts = <<>>

----------------------------------------------------------------------------
(* C10: when the stored text cannot be deserialized, the load logs the     *)
(* error, throws nothing, notifies nothing and leaves the record as it     *)
(* was, the empty default; the session then accepts mutations.             *)

C10_LoadedCorrupt == phase # "init" /\ loadedItem = CorruptItem

C10_CorruptLoadIsNoData ==
    C10_LoadedCorrupt =>
        /\ phase = "mounted"
        /\ consoleErrors = <<"Failed to load saved data:">>
        /\ \A i \in 1..Len(toasts) : toasts[i] # "Previous data loaded"
        /\ (events = 0 => resumeData = DefaultResumeData /\ changeLog = <<>>)
        /\ (events < MaxEvents => ENABLED addExperience)

\* after a corrupt load a mutation was accepted
C10_Witness ==
    /\ C10_LoadedCorrupt
    /\ events >= 1
    /\ changeLog # <<>>
    /\ resumeData # DefaultResumeData
    /\ consoleErrors = <<"Failed to load saved data:">>

----------------------------------------------------------------------------
(* C11: serialization round trip.  What a successful save leaves in storage *)
(* is read back by loadFromLocalStorage as the very record that was saved,  *)
(* entry order included, and a session that starts on the item an earlier   *)
(* session wrote for a record has that record in memory after the mount.    *)

\* the successful saves, oldest first
OkSaves == SelectSeq(saveLog, LAMBDA w : w.ok)

\* the session loaded a stored record and nothing has changed it since
FreshlyLoaded ==
    /\ Mounted
    /\ loadedItem.kind = "json"
    /\ Len(changeLog) = 1
    /\ events = 0

C11_RoundTrip ==
    /\ \A i \in 1..Len(OkSaves) :
           LET read == loadFromLocalStorage(SetItem(OkSaves[i].data))
           IN  read.loaded /\ ~read.thrown /\ read.data = OkSaves[i].data
    /\ OkSaves # <<>> =>
           LET read == loadFromLocalStorage(storage)
           IN  read.loaded /\ read.data = Last(OkSaves).data
    /\ FreshlyLoaded =>
           \A r \in {LegacyRecord, SavedRecord} :
               loadedItem = SetItem(r) => resumeData = r

C11_Witness ==
    /\ loadedItem = SetItem(SavedRecord)
    /\ OkSaves # <<>>
    /\ storage # loadedItem
    /\ Len(Last(OkSaves).data.skills) = 2
    /\ Last(OkSaves).data.skills[1] # Last(OkSaves).data.skills[2]
    /\ Len(Last(OkSaves).data.education) = 1
    /\ loadFromLocalStorage(storage).data = resumeData

----------------------------------------------------------------------------
(* C19: an import replaces the whole record with the imported value and,   *)
(* being a record change, arms the debounce timer for the imported record. *)
(* A pending debounce timer goes away only by a later change or by firing  *)
(* when due, time does not pass a due timer, and a firing whose write      *)
(* succeeds stores the timer's record: with no later change the imported   *)
(* record is in storage one quiet window after the import.                 *)

ImportedToast == "Resume data imported successfully!"

\* this step is onDataImported
C19_ImportStep == toasts' = Append(toasts, ImportedToast)

C19_ImportReplacesAndPersists ==
    /\ [][C19_ImportStep =>
            /\ ChangeStep
            /\ resumeData' \in ImportedRecords
            /\ autosaveTimers' =
                   {[due |-> now + QuietWindow, data |-> resumeData']}]_vars
    /\ [][\A t \in autosaveTimers :
            t \notin autosaveTimers' /\ ~ChangeStep =>
                /\ now = t.due
                /\ SaveStep("timer")
                /\ Last(saveLog').data = t.data
                /\ (Last(saveLog').ok => storage' = SetItem(t.data))]_vars
    /\ [](\A t \in autosaveTimers : now <= t.due)

C19_Witness ==
    /\ loadedItem = SetItem(SavedRecord)
    /\ toasts # <<>>
    /\ Last(toasts) = ImportedToast
    /\ resumeData = LegacyRecord
    /\ TimerSaves # <<>>
    /\ Last(TimerSaves).ok
    /\ Last(TimerSaves).at = Last(changeLog) + QuietWindow
    /\ storage = SetItem(LegacyRecord)
    /\ autosaveTimers = {}

----------------------------------------------------------------------------
(* C20: every write, by the debounce timer or by the button, stores the    *)
(* whole record that is in memory at that instant.  The stored item is the *)
(* one found before the session until a write succeeds, and from then on   *)
(* it is the text of the record of the last successful write, all of its   *)
(* members included; nothing else changes the stored item.                 *)

\* this step is a saveToLocalStorage call whose write succeeds
C20_WriteStep ==
    /\ Len(saveLog') = Len(saveLog) + 1
    /\ Last(saveLog').ok

C20_WritesWholeCurrentRecord ==
    /\ [][C20_WriteStep =>
            /\ Last(saveLog').data = resumeData
            /\ resumeData' = resumeData
            /\ storage'.kind = "json"
            /\ JSONparse(storage'.text) = resumeData
            /\ {storage'.text[i][1] : i \in 1..Len(storage'.text)} =
                   DOMAIN resumeData]_vars
    /\ [][storage' # storage => C20_WriteStep]_vars
    /\ [](IF OkSaves = <<>>
          THEN phase = "init" \/ storage = loadedItem
          ELSE /\ storage.kind = "json"
               /\ JSONparse(storage.text) = Last(OkSaves).data)

C20_Witness ==
    /\ Len(OkSaves) = 2
    /\ OkSaves[1].by = "manual"
    /\ OkSaves[2].by = "timer"
    /\ OkSaves[1].data # OkSaves[2].data
    /\ JSONparse(storage.text) = resumeData
    /\ storage # loadedItem
    /\ Len(resumeData.experience) = 1

----------------------------------------------------------------------------
(* Reading the recorded calls on the experience list                       *)

Prefix(log, n) == SubSeq(log, 1, n)

\* the calls of the given operation, by position in the log
CallsOf(log, op) == {n \in 1..Len(log) : log[n].op = op}

\* the entries that exist after the calls of the log, oldest first, each
\* named by the position of the addExperience call that created it
RECURSIVE Survivors(_)
Survivors(log) ==
    IF log = <<>> THEN <<>>
    ELSE LET before == Survivors(Prefix(log, Len(log) - 1))
             c == Last(log)
         IN  CASE c.op = "addExperience" -> Append(before, Len(log))
               [] c.op = "removeExperience" /\ c.index + 1 \in 1..Len(before) ->
                    [p \in 1..Len(before) - 1 |->
                        IF p <= c.index THEN before[p] ELSE before[p + 1]]
               [] OTHER -> before

\* call n of the log names a position that holds an entry when it is made
InRange(log, n) == log[n].index + 1 \in 1..Len(Survivors(Prefix(log, n - 1)))

\* the entry call n of the log is applied to
Target(log, n) == Survivors(Prefix(log, n - 1))[log[n].index + 1]

\* the updates of the field applied to the entry
UpdatesOf(log, entry, field) ==
    {n \in CallsOf(log, "updateExperience") :
        /\ log[n].field = field
        /\ InRange(log, n)
        /\ Target(log, n) = entry}

\* the value of the last update of the field applied to the entry, the
\* empty string if there was none
LastValue(log, entry, field) ==
    LET ups == UpdatesOf(log, entry, field)
    IN  IF ups = {} THEN <<>>
        ELSE log[CHOOSE n \in ups : \A m \in ups : m <= n].value

FieldsAreLastUpdates ==
    LET entries == Survivors(calls)
    IN  /\ Len(resumeData.experience) = Len(entries)
        /\ \A p \in 1..Len(entries), f \in Range(ExperienceFields) :
               resumeData.experience[p][f] = LastValue(calls, entries[p], f)

(* C12: starting from the empty list, after any sequence of addExperience, *)
(* updateExperience and removeExperience calls the length of the list is   *)
(* the number of adds minus the number of removes, and each field of each  *)
(* surviving entry holds the last update applied to that entry.            *)

C12_LengthIsAddsMinusRemoves ==
    Mounted =>
        /\ Len(resumeData.experience) =
               Cardinality(CallsOf(calls, "addExperience"))
               - Cardinality(CallsOf(calls, "removeExperience"))
        /\ FieldsAreLastUpdates

(* C12, amended: the length of the list is the number of adds minus the    *)
(* number of removes whose index named an existing entry when they were    *)
(* made; a remove of any other index deletes nothing.  Each field of each  *)
(* surviving entry holds the last update applied to that entry, the empty  *)
(* string if there was none, and an update of an index that names no entry *)
(* applies to no entry.                                                    *)

C12_LengthIsAddsMinusInRangeRemoves ==
    Mounted =>
        /\ Len(resumeData.experience) =
               Cardinality(CallsOf(calls, "addExperience"))
               - Cardinality({n \in CallsOf(calls, "removeExperience") :
                                 InRange(calls, n)})
        /\ FieldsAreLastUpdates

C12_Witness ==
    /\ Len(calls) = 4
    /\ calls[3].op = "updateExperience"
    /\ calls[3].index = 1
    /\ calls[3].value = TextB
    /\ calls[4].op = "removeExperience"
    /\ calls[4].index = 0
    /\ Survivors(calls) = <<2>>
    /\ Len(resumeData.experience) = 1
    /\ resumeData.experience[1].title = TextB

----------------------------------------------------------------------------
(* Reading the recorded calls of an editing session                        *)

ListKeys == {"experience", "education", "skills", "projects"}

\* the list of the record under the key, an absent projects being empty
ListOf(r, key) == IF key = "projects" THEN ProjectsOrEmpty(r) ELSE r[key]

\* the list a handler works on
ListKeyOf(op) ==
    CASE op \in {"addExperience", "updateExperience", "removeExperience"} ->
            "experience"
      [] op \in {"addEducation", "updateEducation", "removeEducation"} ->
            "education"
      [] op \in {"addSkill", "removeSkill"} -> "skills"
      [] op \in {"addProject", "updateProject", "removeProject"} -> "projects"

AddOps == {"addExperience", "addEducation", "addProject"}
UpdateOps == {"updateExperience", "updateEducation", "updateProject"}
RemoveOps ==
    {"removeExperience", "removeEducation", "removeSkill", "removeProject"}

\* the record after call n of the log
After(n) == IF n = Len(calls) THEN resumeData ELSE calls[n + 1].before

\* call n names a position of its list that holds an entry
IndexInRange(n) ==
    calls[n].index + 1 \in
        1..Len(ListOf(calls[n].before, ListKeyOf(calls[n].op)))

----------------------------------------------------------------------------
(* C13: a remove whose index is in range deletes exactly the entry at that *)
(* position: the entries before it stay where they are and every later     *)
(* entry moves down by one.  Removing index 1 from [A, B, C] leaves [A, C] *)
(* and removing index 1 again leaves [A].  This holds for removeExperience, *)
(* removeEducation, removeProject and removeSkill alike.                   *)

C13_RemoveDeletesOnePosition ==
    \A n \in 1..Len(calls) :
        calls[n].op \in RemoveOps /\ IndexInRange(n) =>
            LET key == ListKeyOf(calls[n].op)
                old == ListOf(calls[n].before, key)
                new == ListOf(After(n), key)
                i == calls[n].index
            IN  /\ Len(new) = Len(old) - 1
                /\ \A p \in 1..i : new[p] = old[p]
                /\ \A p \in i + 1..Len(new) : new[p] = old[p + 1]
                /\ (old = FullRecord[key] /\ i = 1 =>
                       new = <<FullRecord[key][1], FullRecord[key][3]>>)
                /\ (Len(old) = 2 /\ old[1] = FullRecord[key][1] /\ i = 1 =>
                       new = <<FullRecord[key][1]>>)

C13_Witness ==
    /\ loadedItem = SetItem(FullRecord)
    /\ Len(calls) = 2
    /\ \A n \in 1..2 : calls[n].op = "removeProject" /\ calls[n].index = 1
    /\ calls[1].before = FullRecord
    /\ calls[2].before.projects = <<FullRecord.projects[1], FullRecord.projects[3]>>
    /\ resumeData.projects = <<FullRecord.projects[1]>>
    /\ resumeData.experience = FullRecord.experience

----------------------------------------------------------------------------
(* C14: addSkill is idempotent for a trimmed text.  A call whose trimmed   *)
(* text is already in the list leaves the record as it is; a call whose    *)
(* trimmed text is non-empty and not in the list appends it; so once       *)
(* addSkill(s) has appended, a call with the same trimmed text changes     *)
(* nothing and the text is in the list exactly once.  The test is exact:   *)
(* "p" is appended to a list that holds "P".                               *)

Occurrences(list, x) == Cardinality({p \in 1..Len(list) : list[p] = x})

\* call n is an addSkill that appended its trimmed text
Appended(n) ==
    /\ calls[n].op = "addSkill"
    /\ After(n).skills = Append(calls[n].before.skills, Trim(calls[n].skill))

C14_AddSkillIdempotent ==
    \A n \in 1..Len(calls) :
        calls[n].op = "addSkill" =>
            LET t == Trim(calls[n].skill)
                old == calls[n].before
            IN  /\ (Includes(old.skills, t) => After(n) = old)
                /\ (Truthy(t) /\ ~Includes(old.skills, t) =>
                       After(n) = Spread(old, "skills", Append(old.skills, t)))
                /\ (n > 1 /\ Appended(n - 1) /\ Trim(calls[n - 1].skill) = t =>
                       /\ After(n) = old
                       /\ Occurrences(After(n).skills, t) = 1)
                /\ (t = <<"p">> /\ Includes(old.skills, <<"P">>)
                        /\ ~Includes(old.skills, <<"p">>) =>
                       /\ Includes(After(n).skills, <<"P">>)
                       /\ Includes(After(n).skills, <<"p">>))

C14_Witness ==
    /\ Len(calls) = 2
    /\ calls[1].op = "addSkill"
    /\ calls[1].skill = <<Space, "a">>
    /\ calls[1].before.skills = <<>>
    /\ calls[2].op = "addSkill"
    /\ calls[2].skill = <<"a">>
    /\ resumeData.skills = <<<<"a">>>>
    /\ resumeData = calls[2].before

----------------------------------------------------------------------------
(* C15: addSkill with an empty or whitespace-only text is a no-op: the     *)
(* skills list and the rest of the record are unchanged and no state       *)
(* update is issued, so no change is committed and the debounce timer that *)
(* is pending stays the one it was.                                        *)

\* this step is an addSkill call whose text trims to the empty string
C15_BlankAddSkillStep ==
    /\ Len(calls') = Len(calls) + 1
    /\ Last(calls').op = "addSkill"
    /\ Trim(Last(calls').skill) = <<>>

C15_BlankAddSkillIsNoOp ==
    [][C15_BlankAddSkillStep =>
        /\ resumeData' = resumeData
        /\ changeLog' = changeLog
        /\ autosaveTimers' = autosaveTimers
        /\ cleanupTimer' = cleanupTimer
        /\ UNCHANGED <<phase, isSaving, lastSaved, storage, savingTimers,
                       toasts, consoleErrors, now, loadedItem, saveLog>>]_vars

C15_Witness ==
    /\ calls # <<>>
    /\ Last(calls).op = "addSkill"
    /\ Last(calls).skill = <<Space>>
    /\ resumeData = Last(calls).before
    /\ resumeData.skills = <<<<"a">>>>
    /\ Len(changeLog) = 1
    /\ Cardinality(autosaveTimers) = 1

----------------------------------------------------------------------------
(* C16: an update or a remove whose index is out of range, negative or at  *)
(* least the length of the list, on experience, education, projects or     *)
(* skills does not throw and leaves the content of the record unchanged:   *)
(* personalInfo is the same and every list has the same entries in the     *)
(* same order.                                                             *)

\* the two records have the same personalInfo and the same lists
SameContent(r1, r2) ==
    /\ r1.personalInfo = r2.personalInfo
    /\ \A key \in ListKeys : ListOf(r1, key) = ListOf(r2, key)

C16_OutOfRangeIsNoOp ==
    /\ phase \in {"init", "mounted"}
    /\ \A n \in 1..Len(calls) :
           calls[n].op \in UpdateOps \cup RemoveOps /\ ~IndexInRange(n) =>
               SameContent(After(n), calls[n].before)

C16_Witness ==
    /\ Len(calls) = 2
    /\ calls[1].op = "updateExperience"
    /\ calls[1].index = 3
    /\ calls[1].before = FullRecord
    /\ calls[2].op = "removeSkill"
    /\ calls[2].index = -1
    /\ resumeData = FullRecord
    /\ Mounted

----------------------------------------------------------------------------
(* C17: the completion score of a record is 100 k / 7 rounded to the       *)
(* nearest integer, k being how many of the seven predicates hold: name,   *)
(* email, summary non-empty and skills, experience, education, projects    *)
(* non-empty, an absent projects being empty.  It is an integer from 0 to  *)
(* 100, 0 for the empty record, 100 when all seven hold, and it does not   *)
(* decrease when predicates turn true and none turns false.                *)

\* the predicates of the score that hold of the record
Completed(r) ==
    {f \in {"name", "email", "summary"} : r.personalInfo[f] # <<>>}
        \cup {key \in ListKeys : ListOf(r, key) # <<>>}

\* score is the integer nearest to 100 k / 7
NearestToShare(score, k) ==
    /\ 2 * (7 * score - 100 * k) <= 7
    /\ 2 * (100 * k - 7 * score) < 7

C17_CompletionScore ==
    LET score == getCompletionPercentage(resumeData)
        k == Cardinality(Completed(resumeData))
    IN  /\ score \in 0..100
        /\ NearestToShare(score, k)
        /\ (resumeData = DefaultResumeData => score = 0)
        /\ (k = 0 <=> score = 0)
        /\ (k = 7 <=> score = 100)
        /\ \A n \in 1..Len(calls) :
               LET old == calls[n].before
                   new == After(n)
               IN  /\ (Completed(old) \subseteq Completed(new) =>
                          getCompletionPercentage(old)
                              <= getCompletionPercentage(new))
                   /\ (Completed(old) # Completed(new)
                           /\ Completed(old) \subseteq Completed(new) =>
                          getCompletionPercentage(old)
                              < getCompletionPercentage(new))

C17_Witness ==
    /\ Len(calls) = 2
    /\ calls[1].before = FullRecord
    /\ calls[2].op = "handlePersonalInfoChange"
    /\ Completed(calls[2].before) = Completed(FullRecord) \ {"name"}
    /\ getCompletionPercentage(calls[2].before) = 86
    /\ Cardinality(Completed(resumeData)) = 7
    /\ getCompletionPercentage(resumeData) = 100

----------------------------------------------------------------------------
(* C18: every mutation changes what it names and nothing else.  Setting a  *)
(* personalInfo field leaves the other six fields and the four lists as    *)
(* they were.  An add, update or remove on one list leaves personalInfo    *)
(* and the other three lists as they were; an add keeps the entries there  *)
(* were, and an update keeps the length and the order of the list, every   *)
(* other entry and every other field of the entry it updates.              *)

\* every member of the record other than the named one is as it was
OthersUnchanged(old, new, key) ==
    /\ DOMAIN new = DOMAIN old \cup {key}
    /\ \A k \in DOMAIN old \ {key} : new[k] = old[k]

C18_PersonalChange(c, old, new) ==
    /\ OthersUnchanged(old, new, "personalInfo")
    /\ DOMAIN new.personalInfo = DOMAIN old.personalInfo
    /\ new.personalInfo[c.field] = c.value
    /\ \A f \in DOMAIN old.personalInfo \ {c.field} :
           new.personalInfo[f] = old.personalInfo[f]

C18_ListChange(c, old, new) ==
    LET key == ListKeyOf(c.op)
        before == ListOf(old, key)
        after == ListOf(new, key)
    IN  /\ OthersUnchanged(old, new, key)
        /\ c.op \in AddOps =>
               /\ Len(after) = Len(before) + 1
               /\ SubSeq(after, 1, Len(before)) = before
        /\ c.op = "addSkill" =>
               SubSeq(after, 1, Len(before)) = before
        /\ c.op \in UpdateOps =>
               /\ Len(after) = Len(before)
               /\ \A p \in 1..Len(before) :
                      IF p - 1 = c.index
                      THEN /\ DOMAIN after[p] = DOMAIN before[p]
                           /\ after[p][c.field] = c.value
                           /\ \A f \in DOMAIN before[p] \ {c.field} :
                                  after[p][f] = before[p][f]
                      ELSE after[p] = before[p]

C18_ChangesOnlyWhatItNames ==
    \A n \in 1..Len(calls) :
        /\ calls[n].op = "handlePersonalInfoChange" =>
               C18_PersonalChange(calls[n], calls[n].before, After(n))
        /\ calls[n].op \in AddOps \cup UpdateOps \cup RemoveOps \cup {"addSkill"} =>
               C18_ListChange(calls[n], calls[n].before, After(n))

C18_Witness ==
    /\ Len(calls) = 2
    /\ calls[1].before = FullRecord
    /\ calls[1].op = "handlePersonalInfoChange"
    /\ calls[1].field = "phone"
    /\ calls[1].value = TextB
    /\ calls[2].op = "updateEducation"
    /\ calls[2].index = 1
    /\ calls[2].field = "institution"
    /\ resumeData.education[2].degree = TextB
    /\ resumeData.education[2].institution = TextB
    /\ resumeData.education[3] = FullRecord.education[3]
    /\ resumeData.personalInfo.name = TextA
    /\ resumeData.personalInfo.phone = TextB
    /\ resumeData.projects = FullRecord.projects

----------------------------------------------------------------------------
(* C21: no write happens unless the record has changed since the session   *)
(* started or a manual save was requested: the debounce timer writes only  *)
(* after a change, and a session that mounts over no stored item, or over  *)
(* one it cannot parse, and receives no user input leaves the stored item  *)
(* as it found it.                                                         *)

C21_NoWriteWithoutChange ==
    /\ \A i \in 1..Len(saveLog) :
           saveLog[i].by = "timer" /\ saveLog[i].ok =>
               \E c \in 1..Len(changeLog) : changeLog[c] <= saveLog[i].at
    /\ (Mounted /\ loadedItem.kind # "json" /\ events = 0 =>
           storage = loadedItem)

----------------------------------------------------------------------------
(* C22: a stored record that loads at session start is not overwritten by  *)
(* the empty default record.  The timer the mount arms for the default     *)
(* record is cleared by the state change of the load, so only the timer    *)
(* for the loaded record is pending after the mount, no save of the        *)
(* session carries the default record, and with no user input the first    *)
(* write is the debounce timer's, one quiet window after the mount, of the *)
(* loaded record.                                                          *)

C22_LoadedRecordNotOverwritten ==
    Mounted /\ loadedItem.kind = "json" =>
        LET loaded == JSONparse(loadedItem.text)
        IN  /\ \A t \in autosaveTimers : t.data # DefaultResumeData
            /\ (FreshlyLoaded /\ now < QuietWindow =>
                   autosaveTimers = {[due |-> QuietWindow, data |-> loaded]})
            /\ \A i \in 1..Len(saveLog) : saveLog[i].data # DefaultResumeData
            /\ storage # JsonItem(JSONstringify(DefaultResumeData))
            /\ (events = 0 /\ saveLog # <<>> =>
                   /\ saveLog[1].by = "timer"
                   /\ saveLog[1].at = QuietWindow
                   /\ saveLog[1].data = loaded
                   /\ storage = loadedItem)

C22_Witness ==
    /\ loadedItem = SetItem(SavedRecord)
    /\ events = 0
    /\ Len(saveLog) = 1
    /\ saveLog[1] = [by |-> "timer", at |-> QuietWindow, ok |-> TRUE,
                     data |-> SavedRecord]
    /\ resumeData = SavedRecord
    /\ storage = SetItem(SavedRecord)
    /\ autosaveTimers = {}

----------------------------------------------------------------------------
(* C23: a manual save made while a debounce timer is pending neither       *)
(* clears nor re-arms it.  The timer still fires at the time it was armed  *)
(* for, one quiet window after the last change, and when the record has    *)
(* not changed since the manual save it saves the record the manual save   *)
(* saved: a duplicate write, never another or an older record.             *)

\* save i is a manual save made after the last change, while the timer of
\* that change had not fired
C23_ManualWhilePending(i) ==
    /\ saveLog[i].by = "manual"
    /\ \A c \in 1..Len(changeLog) : changeLog[c] < saveLog[i].at
    /\ saveLog[i].at <= LastChangeAt + QuietWindow
    /\ \A j \in 1..i - 1 :
           ~(saveLog[j].by = "timer"
             /\ saveLog[j].at = LastChangeAt + QuietWindow)

\* save j is the debounce timer's save of the last change
C23_PendingFired(j) ==
    /\ saveLog[j].by = "timer"
    /\ saveLog[j].at = LastChangeAt + QuietWindow

C23_ManualSaveKeepsPendingTimer ==
    /\ [][SaveStep("manual") =>
            /\ autosaveTimers' = autosaveTimers
            /\ cleanupTimer' = cleanupTimer]_vars
    /\ [](\A i \in 1..Len(saveLog) :
            C23_ManualWhilePending(i) =>
                /\ \A j \in i + 1..Len(saveLog) :
                       saveLog[j].by = "timer" =>
                           /\ C23_PendingFired(j)
                           /\ saveLog[j].data = saveLog[i].data
                /\ IF \E j \in i + 1..Len(saveLog) : C23_PendingFired(j)
                   THEN autosaveTimers = {}
                   ELSE /\ now <= LastChangeAt + QuietWindow
                        /\ autosaveTimers =
                               {[due |-> LastChangeAt + QuietWindow,
                                 data |-> saveLog[i].data]})

C23_Witness ==
    /\ Len(saveLog) = 2
    /\ events = 2
    /\ changeLog # <<>>
    /\ C23_ManualWhilePending(1)
    /\ saveLog[1].at = SavingDelay
    /\ saveLog[1].ok
    /\ C23_PendingFired(2)
    /\ saveLog[2].ok
    /\ saveLog[2].at = QuietWindow
    /\ saveLog[2].data = saveLog[1].data
    /\ storage = SetItem(resumeData)
    /\ storage # loadedItem

============================================================================
